---- MODULE Spec2Model ----
(***************************************************************************)
(* State-machine model of server.js: the POST /api/analyze pipeline        *)
(* (multer upload gate, request handler, callGeminiApi retry loop,         *)
(* INSERT into reviews, deleteTempFile) and the GET and DELETE             *)
(* /api/reports/:id routes.                                                *)
(*                                                                         *)
(* One action is one run of the event loop: the code a request executes    *)
(* between two awaits (or callbacks).  Every externally visible effect of  *)
(* a request (fetch issued, timer armed, INSERT issued, response sent,     *)
(* deleteTempFile called, fs.unlink called) is appended to log[r] in the   *)
(* order the code performs it.                                             *)
(***************************************************************************)
EXTENDS Integers, Sequences, FiniteSets, TLC

\* ---------------------------------------------------------------- bounds
\* Number of requests that may be in flight together.
NumReq == 2
\* Report ids a client may ask for: 1..MaxId.
MaxId == 2
\* Number of report requests one client makes in a row.
MaxClientReqs == 3

\* ------------------------------------------------------- program constants
MAX_RETRIES == 5
MaxFileSize == 5 * 1024 * 1024

Reqs == 1..NumReq
Ids == 1..MaxId

\* JavaScript's undefined, for an absent prompt field or an absent text field.
Undefined == "<undefined>"
\* req.file when multer stored no file.
NoFile == [originalname |-> <<>>, mimetype |-> Undefined, size |-> 0, path |-> 0]
\* "no error" / "no report yet"
NoErr == [msg |-> "none", status |-> 0, detail |-> ""]

\* JavaScript truthiness of a string-or-undefined value: !x
FalsyOnlyUndefined(x) == x = Undefined
Falsy(x) == x = Undefined \/ x = ""

\* ------------------------------------------------------------ upload gate
allowedMimeTypes ==
  { "text/plain", "text/javascript", "application/javascript", "text/x-python",
    "application/json", "text/html", "text/css", "text/x-java-source", "text/markdown",
    "text/x-c++src", "text/x-csrc", "text/x-csharp", "text/x-go", "text/x-ruby",
    "application/x-httpd-php", "text/x-swift", "text/x-kotlin", "text/rust",
    "application/xml", "text/xml", "application/x-yaml", "text/yaml",
    "application/x-sh", "application/typescript", "text/jsx", "text/tsx",
    "application/octet-stream" }

\* File names and extensions are sequences of one-character strings.
allowedExtensions ==
  { <<".","t","x","t">>, <<".","j","s">>, <<".","p","y">>, <<".","j","s","o","n">>,
    <<".","h","t","m","l">>, <<".","c","s","s">>, <<".","j","a","v","a">>, <<".","m","d">>,
    <<".","c","p","p">>, <<".","c">>, <<".","c","s">>, <<".","g","o">>, <<".","r","b">>,
    <<".","p","h","p">>, <<".","s","w","i","f","t">>, <<".","k","t">>, <<".","r","s">>,
    <<".","x","m","l">>, <<".","y","a","m","l">>, <<".","s","h">>, <<".","t","s">>,
    <<".","j","s","x">>, <<".","t","s","x">> }

UpperChars == <<"A","B","C","D","E","F","G","H","I","J","K","L","M",
                "N","O","P","Q","R","S","T","U","V","W","X","Y","Z">>
LowerChars == <<"a","b","c","d","e","f","g","h","i","j","k","l","m",
                "n","o","p","q","r","s","t","u","v","w","x","y","z">>

\* String.prototype.toLowerCase on a sequence of characters.
toLowerCase(s) ==
  [k \in 1..Len(s) |->
     IF \E u \in 1..Len(UpperChars) : UpperChars[u] = s[k]
       THEN LowerChars[CHOOSE u \in 1..Len(UpperChars) : UpperChars[u] = s[k]]
       ELSE s[k]]

\* path.extname on a base name: from the last "." to the end; empty when there
\* is no ".", when the only "." is the first character, or for "..".
extname(name) ==
  LET dots == {k \in 1..Len(name) : name[k] = "."} IN
  IF dots = {} THEN <<>>
  ELSE LET d == CHOOSE k \in dots : \A j \in dots : j <= k IN
       IF d = 1 \/ name = <<".", ".">> THEN <<>>
       ELSE SubSeq(name, d, Len(name))

\* multer fileFilter: TRUE = cb(null, true), FALSE = cb(new Error("Invalid file type..."), false)
fileFilterCaseSensitive(file) ==
  file.mimetype \in allowedMimeTypes \/ extname(file.originalname) \in allowedExtensions
fileFilter(file) ==
  LET fileExtension == toLowerCase(extname(file.originalname)) IN
  file.mimetype \in allowedMimeTypes \/ fileExtension \in allowedExtensions

\* upload.single("file") on a body with file part f (or NoFile): what reaches
\* the callback. fileFilter sees the part's name and type before its bytes
\* are read, so its Error comes first; the fileSize limit is met while the
\* bytes are written and gives a MulterError; otherwise no error.
uploadSingleNoLimit(f) ==
  IF f = NoFile THEN "none"
  ELSE IF ~fileFilter(f) THEN "Error"
  ELSE "none"
uploadSingle(f) ==
  IF f = NoFile THEN "none"
  ELSE IF ~fileFilter(f) THEN "Error"
  ELSE IF f.size > MaxFileSize THEN "MulterError"
  ELSE "none"

\* The multipart bodies a client may send: the file part (or none) ...
Files ==
  { [originalname |-> <<"a",".","p","y">>,     mimetype |-> "text/x-python",            size |-> 120],
    [originalname |-> <<"B",".","J","S">>,     mimetype |-> Undefined,                  size |-> MaxFileSize],
    [originalname |-> <<"x",".","e","x","e">>, mimetype |-> "application/x-msdownload", size |-> 120],
    [originalname |-> <<".","j","s">>,         mimetype |-> "video/mp4",                size |-> 120],
    [originalname |-> <<"a",".","p","y">>,     mimetype |-> "text/x-python",            size |-> MaxFileSize + 1],
    [originalname |-> <<"x",".","e","x","e">>, mimetype |-> "application/x-msdownload", size |-> MaxFileSize + 1],
    [originalname |-> <<"C",".","T","S">>,     mimetype |-> "video/mp2t",               size |-> 120],
    [originalname |-> <<"M","a","k","e">>,     mimetype |-> "application/octet-stream", size |-> 120] }
\* ... and the prompt field (absent, empty or a text).
Prompts == { Undefined, "", "find bugs" }

\* --------------------------------------------------------- remote endpoint
\* What one fetch can end with: a response (status, statusText, text found at
\* candidates[0].content.parts[0].text or Undefined, errmsg found at
\* error.message of the body or Undefined) or a rejected fetch.
Outcomes ==
  { [net |-> TRUE,  status |-> 200, text |-> "T1",      errmsg |-> Undefined, statusText |-> "OK"],
    [net |-> TRUE,  status |-> 200, text |-> "T2",      errmsg |-> Undefined, statusText |-> "OK"],
    [net |-> TRUE,  status |-> 200, text |-> "",        errmsg |-> Undefined, statusText |-> "OK"],
    [net |-> TRUE,  status |-> 200, text |-> Undefined, errmsg |-> Undefined, statusText |-> "OK"],
    [net |-> TRUE,  status |-> 400, text |-> Undefined,
     errmsg |-> "API key not valid.", statusText |-> "Bad Request"],
    [net |-> TRUE,  status |-> 500, text |-> Undefined,
     errmsg |-> Undefined, statusText |-> "Internal Server Error"],
    [net |-> TRUE,  status |-> 503, text |-> Undefined,
     errmsg |-> "The model is overloaded.", statusText |-> "Service Unavailable"],
    [net |-> FALSE, status |-> 0,   text |-> Undefined, errmsg |-> Undefined, statusText |-> ""] }

\* response.ok
Ok(o) == o.net /\ o.status >= 200 /\ o.status <= 299

RECURSIVE Pow2(_)
\* Math.pow(2, i)
Pow2(i) == IF i = 0 THEN 1 ELSE 2 * Pow2(i - 1)

\* const delay = Math.pow(2, i) * 1000
DelayLinear(i) == (i + 1) * 1000
Delay(i) == Pow2(i) * 1000

\* The errors callGeminiApi can throw.
\* msg is the fixed part of the message; status and detail are the parts
\* that `Gemini API Error: ${status} ${detail}` interpolates.
ErrKeyNotSet    ==
  [msg |-> "GEMINI_API_KEY is not set in environment variables.", status |-> 0, detail |-> ""]
ErrEmpty        ==
  [msg |-> "Gemini API returned an empty or invalid response.", status |-> 0, detail |-> ""]
ErrApiStatusTextOnly(o) ==
  [msg |-> "Gemini API Error", status |-> o.status, detail |-> o.statusText]
ErrApi(o)       ==
  [msg |-> "Gemini API Error", status |-> o.status,
   detail |-> IF Falsy(o.errmsg) THEN o.statusText ELSE o.errmsg]
ErrFetch        == [msg |-> "fetch failed", status |-> 0, detail |-> ""]
ErrAfterRetries ==
  [msg |-> "Gemini API call failed after multiple retries.", status |-> 0, detail |-> ""]

\* callGeminiApi before its loop: the credential check.
CallStartNoCheck(key) == [act |-> "fetch", err |-> NoErr]
CallStart(key) ==
  IF ~key THEN [act |-> "throw", err |-> ErrKeyNotSet]
          ELSE [act |-> "fetch", err |-> NoErr]

\* Variants of TryBlock with a slip: the retry guard off by one; the
\* emptiness check of the report left out.
TryBlockOffByOne(i, o) ==
  IF ~o.net THEN [act |-> "throw", err |-> ErrFetch, report |-> Undefined, delay |-> 0]
  ELSE IF Ok(o) THEN
    IF Falsy(o.text)
      THEN [act |-> "throw", err |-> ErrEmpty, report |-> Undefined, delay |-> 0]
      ELSE [act |-> "return", err |-> NoErr, report |-> o.text, delay |-> 0]
  ELSE IF o.status >= 500 /\ i < MAX_RETRIES
      THEN [act |-> "wait", err |-> NoErr, report |-> Undefined, delay |-> Delay(i)]
      ELSE [act |-> "throw", err |-> ErrApi(o), report |-> Undefined, delay |-> 0]
TryBlockNoEmptyCheck(i, o) ==
  IF ~o.net THEN [act |-> "throw", err |-> ErrFetch, report |-> Undefined, delay |-> 0]
  ELSE IF Ok(o) THEN [act |-> "return", err |-> NoErr, report |-> o.text, delay |-> 0]
  ELSE IF o.status >= 500 /\ i < MAX_RETRIES - 1
      THEN [act |-> "wait", err |-> NoErr, report |-> Undefined, delay |-> Delay(i)]
      ELSE [act |-> "throw", err |-> ErrApi(o), report |-> Undefined, delay |-> 0]

\* Body of the try block of attempt i, given what the fetch ended with:
\* return the report, wait and continue, or throw (into the catch block).
TryBlock(i, o) ==
  IF ~o.net THEN [act |-> "throw", err |-> ErrFetch, report |-> Undefined, delay |-> 0]
  ELSE IF Ok(o) THEN
    IF Falsy(o.text)
      THEN [act |-> "throw", err |-> ErrEmpty, report |-> Undefined, delay |-> 0]
      ELSE [act |-> "return", err |-> NoErr, report |-> o.text, delay |-> 0]
  ELSE IF o.status >= 500 /\ i < MAX_RETRIES - 1
      THEN [act |-> "wait", err |-> NoErr, report |-> Undefined, delay |-> Delay(i)]
      ELSE [act |-> "throw", err |-> ErrApi(o), report |-> Undefined, delay |-> 0]

\* The catch block of attempt i: rethrow on the last attempt, else wait.
CatchBlockNoRetry(i, err) == [act |-> "throw", err |-> err, report |-> Undefined, delay |-> 0]
CatchBlockOffByOne(i, err) ==
  IF i = MAX_RETRIES
    THEN [act |-> "throw", err |-> err, report |-> Undefined, delay |-> 0]
    ELSE [act |-> "wait", err |-> NoErr, report |-> Undefined, delay |-> Delay(i)]
CatchBlock(i, err) ==
  IF i = MAX_RETRIES - 1
    THEN [act |-> "throw", err |-> err, report |-> Undefined, delay |-> 0]
    ELSE [act |-> "wait", err |-> NoErr, report |-> Undefined, delay |-> Delay(i)]

\* One iteration of the for loop from the moment the fetch has settled.
Attempt(i, o) ==
  LET t == TryBlock(i, o) IN
  IF t.act = "throw" THEN CatchBlock(i, t.err) ELSE t

\* ------------------------------------------------------------------ state
VARIABLES
  keySet,   \* GEMINI_API_KEY is configured (process.env, fixed at start-up)
  mock,     \* the endpoint is a test double that records its answers in hist
  pc,       \* pc[r]: where request r is suspended
  file,     \* req.file of request r (NoFile when multer stored none)
  prompt,   \* req.body.prompt of request r
  i,        \* loop variable i of request r's callGeminiApi call
  report,   \* what callGeminiApi returned to request r
  caught,   \* the error the handler's catch block received (console.error)
  log,      \* effects of request r, in the order performed
  hist,     \* the answers the mock endpoint gave to request r, in order
  reviews,  \* rows of table reviews
  nextId,   \* next value of the SERIAL id sequence
  disk      \* paths of the files present in uploads/

vars == <<keySet, mock, pc, file, prompt, i, report, caught, log, hist, reviews, nextId, disk>>

\* Response bodies.
MsgInvalidType == "Invalid file type. Only code and text files are allowed."
MsgTooLarge    == "File upload error: File too large"
MsgNoFile      == "A code file is required."
MsgNoPrompt    == "A review prompt is required."
MsgGeneric     == "An internal server error occurred during the analysis."
MsgNotFound    == "Report with ID ${id} not found."
MsgGetFailed   == "Failed to fetch the specified report."
MsgDelFailed   == "Failed to delete the report."

\* Errors raised in the handler outside callGeminiApi.
ErrRead == [msg |-> "readFileSync failed", status |-> 0, detail |-> ""]
ErrDb   == [msg |-> "pool.query failed", status |-> 0, detail |-> ""]

\* res.status(status).json(body)
Respond(l, status, body) == Append(l, [ev |-> "respond", status |-> status, body |-> body])

\* deleteTempFile(filePath): fs.unlink is started only for a path that exists.
deleteTempFileNoExistsCheck(l, filePath, dsk) ==
  Append(Append(l, [ev |-> "deleteTempFile", path |-> filePath, exists |-> filePath \in dsk]),
         [ev |-> "unlink", path |-> filePath])
deleteTempFile(l, filePath, dsk) ==
  LET called == Append(l, [ev |-> "deleteTempFile", path |-> filePath,
                               exists |-> filePath \in dsk]) IN
  IF filePath # 0 /\ filePath \in dsk
    THEN Append(called, [ev |-> "unlink", path |-> filePath])
    ELSE called

\* finally { if (req.file) deleteTempFile(req.file.path); }
Finally(l, f, dsk) == IF f # NoFile THEN deleteTempFile(l, f.path, dsk) ELSE l

\* catch (error) { console.error(...); res.status(500).json({ error: generic }); }
CatchResponseLeak(l, error) == Respond(l, 500, [error |-> error.msg])
CatchResponse(l, error) == Respond(l, 500, [error |-> MsgGeneric])

\* Where the request is once the handler has run to its end: waiting for the
\* unlink callback when one was started, finished otherwise.
AfterHandler(l) == IF l # <<>> /\ l[Len(l)].ev = "unlink" THEN "unlinking" ELSE "done"

\* The handler ends by sending (status, body) and running its finally block.
ConcludeTwice(r, status, body) ==
  LET l == Finally(CatchResponse(Respond(log[r], status, body), NoErr), file[r], disk) IN
  /\ log' = [log EXCEPT ![r] = l]
  /\ pc' = [pc EXCEPT ![r] = AfterHandler(l)]
ConcludeReleaseFirst(r, status, body) ==
  LET released == Finally(log[r], file[r], disk) IN
  /\ log' = [log EXCEPT ![r] = Respond(released, status, body)]
  /\ pc' = [pc EXCEPT ![r] = AfterHandler(released)]
Conclude(r, status, body) ==
  LET l == Finally(Respond(log[r], status, body), file[r], disk) IN
  /\ log' = [log EXCEPT ![r] = l]
  /\ pc' = [pc EXCEPT ![r] = AfterHandler(l)]

\* The handler ends in its catch block with error e, then its finally block.
FailNoFinally(r, e) ==
  /\ caught' = [caught EXCEPT ![r] = e]
  /\ log' = [log EXCEPT ![r] = CatchResponse(log[r], e)]
  /\ pc' = [pc EXCEPT ![r] = "done"]
Fail(r, e) ==
  LET l == Finally(CatchResponse(log[r], e), file[r], disk) IN
  /\ caught' = [caught EXCEPT ![r] = e]
  /\ log' = [log EXCEPT ![r] = l]
  /\ pc' = [pc EXCEPT ![r] = AfterHandler(l)]

InitCommon ==
  /\ keySet \in BOOLEAN
  /\ file = [r \in Reqs |-> NoFile]
  /\ prompt = [r \in Reqs |-> Undefined]
  /\ i = [r \in Reqs |-> 0]
  /\ report = [r \in Reqs |-> Undefined]
  /\ caught = [r \in Reqs |-> NoErr]
  /\ log = [r \in Reqs |-> <<>>]
  /\ hist = [r \in Reqs |-> <<>>]
  /\ reviews = {}
  /\ nextId = 1
  /\ disk = {}

\* The server with every request yet to arrive, against the live endpoint.
Init ==
  /\ InitCommon
  /\ mock = FALSE
  /\ pc = [r \in Reqs |-> "idle"]

\* One request against a mock endpoint that records the answers it gives.
InitOne ==
  /\ InitCommon
  /\ mock = TRUE
  /\ pc = [r \in Reqs |-> IF r = 1 THEN "idle" ELSE "off"]

\* The server started on a store that holds a row of an earlier run, with one
\* request yet to arrive and the other slots clients of the reports routes.
OldRow == [id |-> 1, filename |-> <<"o", ".", "g", "o">>,
           review_prompt |-> "find bugs", report |-> "T0"]
InitStore ==
  /\ keySet \in BOOLEAN
  /\ mock = FALSE
  /\ pc = [r \in Reqs |-> IF r = 1 THEN "idle" ELSE "client"]
  /\ file = [r \in Reqs |-> NoFile]
  /\ prompt = [r \in Reqs |-> Undefined]
  /\ i = [r \in Reqs |-> 0]
  /\ report = [r \in Reqs |-> Undefined]
  /\ caught = [r \in Reqs |-> NoErr]
  /\ log = [r \in Reqs |-> <<>>]
  /\ hist = [r \in Reqs |-> <<>>]
  /\ reviews = {OldRow}
  /\ nextId = 2
  /\ disk = {}

\* POST /api/analyze, first middleware: multer parses the multipart body.
\* fileFilter sees the file's name and type before its bytes are read; the
\* size limit is met while the bytes are written (multer removes the partial
\* file); an accepted file is stored under a fresh path and next() is called.
Upload(r) ==
  /\ pc[r] = "idle"
  /\ \E f \in Files \cup {NoFile}, p \in Prompts :
       LET received == Append(log[r], [ev |-> "upload", file |-> f, prompt |-> p]) IN
       IF uploadSingle(f) = "MulterError" THEN
         /\ log' = [log EXCEPT ![r] = Respond(received, 400, [error |-> MsgTooLarge])]
         /\ pc' = [pc EXCEPT ![r] = "done"]
         /\ UNCHANGED <<file, prompt, disk>>
       ELSE IF uploadSingle(f) = "Error" THEN
         /\ log' = [log EXCEPT ![r] = Respond(received, 400, [error |-> MsgInvalidType])]
         /\ pc' = [pc EXCEPT ![r] = "done"]
         /\ UNCHANGED <<file, prompt, disk>>
       ELSE
         /\ log' = [log EXCEPT ![r] = received]
         /\ file' = [file EXCEPT ![r] = IF f = NoFile THEN NoFile ELSE
                       [originalname |-> f.originalname, mimetype |-> f.mimetype,
                        size |-> f.size, path |-> r]]
         /\ prompt' = [prompt EXCEPT ![r] = p]
         /\ disk' = IF f = NoFile THEN disk ELSE disk \cup {r}
         /\ pc' = [pc EXCEPT ![r] = "handler"]
  /\ UNCHANGED <<keySet, mock, i, report, caught, hist, reviews, nextId>>

\* The async handler from its start to its first await: request-shape checks,
\* readFileSync, payload, and callGeminiApi up to the first fetch.
Analyze(r) ==
  /\ pc[r] = "handler"
  /\ IF file[r] = NoFile THEN
       /\ Conclude(r, 400, [error |-> MsgNoFile])
       /\ UNCHANGED <<i, caught>>
     ELSE IF Falsy(prompt[r]) THEN
       /\ Conclude(r, 400, [error |-> MsgNoPrompt])
       /\ UNCHANGED <<i, caught>>
     ELSE \E readOk \in (IF file[r].path \in disk THEN BOOLEAN ELSE {FALSE}) :
       IF ~readOk THEN
         /\ Fail(r, ErrRead)
         /\ UNCHANGED i
       ELSE IF CallStart(keySet).act = "throw" THEN
         /\ Fail(r, CallStart(keySet).err)
         /\ UNCHANGED i
       ELSE
         /\ i' = [i EXCEPT ![r] = 0]
         /\ log' = [log EXCEPT ![r] = Append(@, [ev |-> "fetch", i |-> 0])]
         /\ pc' = [pc EXCEPT ![r] = "fetching"]
         /\ UNCHANGED caught
  /\ UNCHANGED <<keySet, mock, file, prompt, report, hist, reviews, nextId, disk>>

\* The awaited fetch of attempt i settles with outcome o: the rest of the
\* loop iteration runs, then either the handler goes on to the INSERT, or a
\* timer is armed, or the error reaches the handler's catch block.
FetchReturns(r) ==
  /\ pc[r] = "fetching"
  /\ \E o \in Outcomes :
       LET a == Attempt(i[r], o) IN
       /\ hist' = [hist EXCEPT ![r] = IF mock THEN Append(@, o) ELSE @]
       /\ IF a.act = "return" THEN
            /\ report' = [report EXCEPT ![r] = a.report]
            /\ log' = [log EXCEPT ![r] = Append(@, [ev |-> "insert",
                         filename |-> file[r].originalname,
                         review_prompt |-> prompt[r], report |-> a.report])]
            /\ pc' = [pc EXCEPT ![r] = "inserting"]
            /\ UNCHANGED caught
          ELSE IF a.act = "wait" THEN
            /\ log' = [log EXCEPT ![r] = Append(@, [ev |-> "wait", delay |-> a.delay])]
            /\ pc' = [pc EXCEPT ![r] = "waiting"]
            /\ UNCHANGED <<report, caught>>
          ELSE
            /\ Fail(r, a.err)
            /\ UNCHANGED report
  /\ UNCHANGED <<keySet, mock, file, prompt, i, reviews, nextId, disk>>

\* The retry timer fires: i++, the loop condition, and the next fetch (or the
\* throw that follows the loop).
TimerFiresSharedCounter(r) ==
  /\ pc[r] = "waiting"
  /\ i' = [q \in Reqs |-> IF i[q] + 1 < MAX_RETRIES THEN i[q] + 1 ELSE i[q]]
  /\ log' = [log EXCEPT ![r] = Append(@, [ev |-> "fetch", i |-> i'[r]])]
  /\ pc' = [pc EXCEPT ![r] = "fetching"]
  /\ UNCHANGED <<keySet, mock, file, prompt, report, caught, hist, reviews, nextId, disk>>
TimerFires(r) ==
  /\ pc[r] = "waiting"
  /\ i' = [i EXCEPT ![r] = @ + 1]
  /\ IF i[r] + 1 < MAX_RETRIES THEN
       /\ log' = [log EXCEPT ![r] = Append(@, [ev |-> "fetch", i |-> i[r] + 1])]
       /\ pc' = [pc EXCEPT ![r] = "fetching"]
       /\ UNCHANGED caught
     ELSE Fail(r, ErrAfterRetries)
  /\ UNCHANGED <<keySet, mock, file, prompt, report, hist, reviews, nextId, disk>>

\* The awaited INSERT settles: the row is stored and 201 is sent, or the
\* query rejects and the catch block answers.
InsertReturns(r) ==
  /\ pc[r] = "inserting"
  /\ \E stored \in BOOLEAN :
       IF stored THEN
         LET row == [id |-> nextId, filename |-> file[r].originalname,
                     review_prompt |-> prompt[r], report |-> report[r]]
             l == Append(log[r], [ev |-> "inserted", id |-> nextId])
             l2 == Finally(Respond(l, 201,
                     [message |-> "Analysis successful!",
                      review |-> [id |-> row.id, filename |-> row.filename,
                                  prompt |-> prompt[r], report |-> report[r]]]),
                     file[r], disk)
         IN /\ reviews' = reviews \cup {row}
            /\ nextId' = nextId + 1
            /\ log' = [log EXCEPT ![r] = l2]
            /\ pc' = [pc EXCEPT ![r] = AfterHandler(l2)]
            /\ UNCHANGED caught
       ELSE
         /\ Fail(r, ErrDb)
         /\ UNCHANGED <<reviews, nextId>>
  /\ UNCHANGED <<keySet, mock, file, prompt, i, report, hist, disk>>

\* The callback of fs.unlink runs: the file is gone, or the error is logged.
UnlinkReturns(r) ==
  /\ pc[r] = "unlinking"
  /\ \E removed \in (IF file[r].path \in disk THEN BOOLEAN ELSE {FALSE}) :
       /\ disk' = IF removed THEN disk \ {file[r].path} ELSE disk
       /\ log' = [log EXCEPT ![r] = Append(@, [ev |-> "unlinked", err |-> ~removed])]
  /\ pc' = [pc EXCEPT ![r] = "done"]
  /\ UNCHANGED <<keySet, mock, file, prompt, i, report, caught, hist, reviews, nextId>>

\* Environment: something else removes the request's file from uploads/
\* while the request is suspended.
Vanish(r) ==
  /\ pc[r] \in {"handler", "fetching", "waiting", "inserting", "unlinking"}
  /\ file[r] # NoFile
  /\ file[r].path \in disk
  /\ disk' = disk \ {file[r].path}
  /\ UNCHANGED <<keySet, mock, pc, file, prompt, i, report, caught, log, hist, reviews, nextId>>

\* A request slot that may issue a report request: a fresh one, or a client
\* that makes up to MaxClientReqs of them one after another.
MayAsk(r) ==
  \/ pc[r] = "idle"
  \/ pc[r] = "client" /\ Len(log[r]) < MaxClientReqs
Asked(r) == IF pc[r] = "client" THEN "client" ELSE "done"

\* GET /api/reports/:id at the moment the store runs the SELECT: 200 with
\* the row, 404 when no row has the id, 500 when the query rejects.
GetReport(r) ==
  /\ MayAsk(r)
  /\ \E id \in Ids, answered \in BOOLEAN :
       LET rows == {row \in reviews : row.id = id}
           res == IF ~answered THEN [status |-> 500, body |-> [error |-> MsgGetFailed]]
                  ELSE IF Cardinality(rows) = 0
                    THEN [status |-> 404, body |-> [error |-> MsgNotFound, id |-> id]]
                    ELSE [status |-> 200, body |-> CHOOSE row \in rows : TRUE]
       IN log' = [log EXCEPT ![r] = Append(@, [ev |-> "reply", op |-> "get", id |-> id,
                                              status |-> res.status, body |-> res.body])]
  /\ pc' = [pc EXCEPT ![r] = Asked(r)]
  /\ UNCHANGED <<keySet, mock, file, prompt, i, report, caught, hist, reviews, nextId, disk>>

\* DELETE /api/reports/:id at the moment the store runs the DELETE: 204 when
\* a row was removed, 404 when rowCount is 0, 500 when the query rejects.
DeleteReportAlways204(r) ==
  /\ MayAsk(r)
  /\ \E id \in Ids :
       /\ reviews' = {row \in reviews : row.id # id}
       /\ log' = [log EXCEPT ![r] = Append(@, [ev |-> "reply", op |-> "delete", id |-> id,
                                               status |-> 204, body |-> Undefined])]
  /\ pc' = [pc EXCEPT ![r] = Asked(r)]
  /\ UNCHANGED <<keySet, mock, file, prompt, i, report, caught, hist, nextId, disk>>
DeleteReport(r) ==
  /\ MayAsk(r)
  /\ \E id \in Ids, answered \in BOOLEAN :
       LET rows == {row \in reviews : row.id = id}
           rowCount == Cardinality(rows)
           res == IF ~answered THEN [status |-> 500, body |-> [error |-> MsgDelFailed]]
                  ELSE IF rowCount = 0
                    THEN [status |-> 404, body |-> [error |-> MsgNotFound, id |-> id]]
                    ELSE [status |-> 204, body |-> Undefined]
       IN /\ reviews' = IF answered THEN reviews \ rows ELSE reviews
          /\ log' = [log EXCEPT ![r] = Append(@, [ev |-> "reply", op |-> "delete", id |-> id,
                                                  status |-> res.status, body |-> res.body])]
  /\ pc' = [pc EXCEPT ![r] = Asked(r)]
  /\ UNCHANGED <<keySet, mock, file, prompt, i, report, caught, hist, nextId, disk>>

Next ==
  \E r \in Reqs :
    \/ Upload(r)
    \/ Analyze(r)
    \/ FetchReturns(r)
    \/ TimerFires(r)
    \/ InsertReturns(r)
    \/ UnlinkReturns(r)
    \/ Vanish(r)
    \/ GetReport(r)
    \/ DeleteReport(r)

Spec == Init /\ [][Next]_vars

SpecOne == InitOne /\ [][Next]_vars

SpecStore == InitStore /\ [][Next]_vars

\* ------------------------------------------------------- reading the log
\* The events of kind e in l, in order.
Events(l, e) == SelectSeq(l, LAMBDA x : x.ev = e)
Count(l, e) == Len(Events(l, e))
\* The delays request r has waited, in order.
Waits(r) == [k \in 1..Count(log[r], "wait") |-> Events(log[r], "wait")[k].delay]
RECURSIVE SumSeq(_)
SumSeq(q) == IF q = <<>> THEN 0 ELSE q[1] + SumSeq(Tail(q))
\* The responses sent to request r, in order.
Responses(r) == Events(log[r], "respond")
\* What the client of request r sent.
Sent(r) == Events(log[r], "upload")[1]
\* Request r's callGeminiApi call is over (it returned or threw).
CallOver(r) == pc[r] \in {"inserting", "unlinking", "done"}
\* Request r's handler has run to its end.
Concluded(r) == pc[r] \in {"unlinking", "done"} /\ Count(log[r], "upload") = 1
\* Some DELETE /api/reports/:id request removed the row with this id.
Deleted(id) ==
  \E r \in Reqs : \E k \in 1..Len(log[r]) :
    /\ log[r][k].ev = "reply"
    /\ log[r][k].op = "delete"
    /\ log[r][k].id = id
    /\ log[r][k].status = 204
\* The errors callGeminiApi itself raises for an endpoint answer.
ApiErrors == {ErrEmpty, ErrFetch, ErrAfterRetries} \cup {ErrApi(o) : o \in Outcomes}

\* Classes of endpoint answers, as the claims name them.
ServerError(o) == o.net /\ o.status >= 500
ClientError(o) == o.net /\ ~(o.status >= 200 /\ o.status <= 299) /\ o.status < 500
Success(o) == o.net /\ o.status >= 200 /\ o.status <= 299 /\ o.text \notin {Undefined, ""}

\* The upload of request r fails validation: no file, a type neither list
\* allows, more than 5 MiB, or no prompt.
Invalid(u) ==
  \/ u.file = NoFile
  \/ ~fileFilter(u.file)
  \/ u.file.size > 5242880
  \/ u.prompt \in {Undefined, ""}

\* ------------------------------------------------------------------ claims

\* C1: whenever the endpoint answers attempt k (1-based) with a non-success
\* status below 500, the call fails at once with the error carrying that
\* status: that answer is the last one, k fetches were issued in all and only
\* the k-1 waits before it were performed.
C1_TerminalStatusFailsAtOnce ==
  \A r \in Reqs : \A k \in 1..Len(hist[r]) :
    ClientError(hist[r][k]) =>
      /\ Len(hist[r]) = k
      /\ Count(log[r], "fetch") = k
      /\ Count(log[r], "wait") = k - 1
      /\ caught[r] = ErrApi(hist[r][k])

\* C2 as stated: when every attempt was answered with a status >= 500 and the
\* call has failed, 5 fetches were issued and the error is the
\* "failed after multiple retries" error.
C2_ExhaustedError ==
  \A r \in Reqs :
    ( /\ hist[r] # <<>>
      /\ \A k \in 1..Len(hist[r]) : ServerError(hist[r][k])
      /\ CallOver(r) )
    => /\ Count(log[r], "fetch") = MAX_RETRIES
       /\ caught[r] = ErrAfterRetries

\* C2 amended: when every attempt was answered with a status >= 500 and the
\* call has failed, exactly 5 fetches and 4 waits were performed and the error
\* is the one carrying the status of the 5th answer, never the
\* "failed after multiple retries" error.
C2_ExhaustionRaisesLastStatus ==
  \A r \in Reqs :
    ( /\ hist[r] # <<>>
      /\ \A k \in 1..Len(hist[r]) : ServerError(hist[r][k])
      /\ CallOver(r) )
    => /\ Count(log[r], "fetch") = MAX_RETRIES
       /\ Len(hist[r]) = MAX_RETRIES
       /\ Count(log[r], "wait") = MAX_RETRIES - 1
       /\ caught[r] = ErrApi(hist[r][MAX_RETRIES])
       /\ caught[r] # ErrAfterRetries
       /\ report[r] = Undefined

C2_Witness ==
  \E r \in Reqs :
    /\ Len(hist[r]) = MAX_RETRIES
    /\ \A k \in 1..MAX_RETRIES : hist[r][k].status = 503
    /\ caught[r].status = 503
    /\ pc[r] = "done"

\* The waits of a call that failed k times: 1 s, 2 s, 4 s, 8 s.
BackoffTable == <<1000, 2000, 4000, 8000>>
BackoffTotal == <<0, 1000, 3000, 7000, 15000>>

\* C3: when the first k answers (k in 0..4) are statuses >= 500 and answer k+1
\* is a success with text T, the call returns T, k+1 fetches were issued and
\* no more are, and the k waits are 1000, 2000, ... ms (15000 ms in all for
\* k = 4).
C3_RecoveryAfterServerErrors ==
  \A r \in Reqs : \A k \in 0..(MAX_RETRIES - 1) :
    ( /\ Len(hist[r]) >= k + 1
      /\ \A j \in 1..k : ServerError(hist[r][j])
      /\ Success(hist[r][k + 1]) )
    => /\ report[r] = hist[r][k + 1].text
       /\ Len(hist[r]) = k + 1
       /\ Count(log[r], "fetch") = k + 1
       /\ pc[r] \notin {"fetching", "waiting"}
       /\ Waits(r) = SubSeq(BackoffTable, 1, k)
       /\ SumSeq(Waits(r)) = BackoffTotal[k + 1]

C3_Witness ==
  \E r \in Reqs :
    /\ Len(hist[r]) = MAX_RETRIES
    /\ \A j \in 1..(MAX_RETRIES - 1) : hist[r][j].status = 500
    /\ hist[r][MAX_RETRIES].status = 200
    /\ hist[r][MAX_RETRIES].text = "T2"
    /\ report[r] = "T2"
    /\ SumSeq(Waits(r)) = 15000
    /\ pc[r] = "done"

\* C4: a call made with the key configured issues between 1 and 5 fetches
\* whatever the endpoint answers; every wait directly follows a fetch, the
\* one of attempt i, and lasts 2^i * 1000 ms; nothing follows the fetch of
\* attempt 4 but the end of the call; the call is over once 5 answers were
\* given, and a call that is over has returned a text or raised an error,
\* not both.
C4_AttemptBound ==
  \A r \in Reqs :
    LET l == log[r] IN
    /\ Count(l, "fetch") <= MAX_RETRIES
    /\ Count(l, "wait") <= MAX_RETRIES - 1
    /\ \A k \in 1..Len(l) :
         /\ l[k].ev = "fetch" => l[k].i = Count(SubSeq(l, 1, k - 1), "fetch")
         /\ l[k].ev = "wait" =>
              /\ k > 1 /\ l[k - 1].ev = "fetch"
              /\ l[k - 1].i < MAX_RETRIES - 1
              /\ l[k].delay = BackoffTable[l[k - 1].i + 1]
    /\ (keySet /\ Concluded(r) /\ ~Invalid(Sent(r)) /\ caught[r] # ErrRead) =>
         Count(l, "fetch") >= 1
    /\ Len(hist[r]) <= Count(l, "fetch")
    /\ Len(hist[r]) = MAX_RETRIES => CallOver(r)
    /\ (CallOver(r) /\ Count(l, "fetch") >= 1) =>
         /\ Len(hist[r]) = Count(l, "fetch")
         /\ (report[r] \notin {Undefined, ""}) # (caught[r] \in ApiErrors)

C4_Witness ==
  \E r \in Reqs :
    /\ Len(hist[r]) = MAX_RETRIES
    /\ ~hist[r][1].net
    /\ hist[r][2].status = 400
    /\ hist[r][3].status = 503
    /\ hist[r][4].status = 200
    /\ ~hist[r][5].net
    /\ Waits(r) = BackoffTable
    /\ caught[r] = ErrFetch

\* C5: a request that holds a temp file calls deleteTempFile exactly once, at
\* the end of its handler and not before, on every exit path, for its own
\* path; fs.unlink is started once when the file exists then and not at all
\* when it is already absent, in which case the request just ends; a request
\* without a temp file releases nothing; a successful unlink leaves no file.
C5_ReleasedExactlyOnce ==
  \A r \in Reqs :
    LET dels == Events(log[r], "deleteTempFile")
        unl  == Events(log[r], "unlink")
        cbs  == Events(log[r], "unlinked")
    IN /\ ~Concluded(r) => dels = <<>> /\ unl = <<>>
       /\ file[r] = NoFile => dels = <<>> /\ unl = <<>>
       /\ (Concluded(r) /\ file[r] # NoFile) =>
            /\ Len(dels) = 1
            /\ dels[1].path = file[r].path
            /\ Len(unl) = (IF dels[1].exists THEN 1 ELSE 0)
            /\ \A k \in 1..Len(unl) : unl[k].path = file[r].path
            /\ Len(Responses(r)) = 1
            /\ ~dels[1].exists => pc[r] = "done" /\ cbs = <<>>
            /\ Len(cbs) <= Len(unl)
            /\ (pc[r] = "done" /\ dels[1].exists) => Len(cbs) = 1
            /\ (cbs # <<>> /\ ~cbs[1].err) => file[r].path \notin disk

C5_Witness ==
  \E r \in Reqs :
    /\ pc[r] = "done"
    /\ caught[r] = ErrDb
    /\ Count(log[r], "deleteTempFile") = 1
    /\ Count(log[r], "unlink") = 1
    /\ file[r].path \notin disk

\* C6 as stated: in a concluded request that holds a temp file, the release
\* of the file comes before the response.
C6_ReleaseBeforeResponse ==
  \A r \in Reqs :
    (Concluded(r) /\ file[r] # NoFile) =>
      \E d, k \in 1..Len(log[r]) :
        /\ log[r][d].ev = "deleteTempFile"
        /\ log[r][k].ev = "respond"
        /\ d < k

\* C6 amended: on every path (400, 500, 201) the release comes after the
\* response: deleteTempFile is called directly after the one response was
\* sent, fs.unlink directly after that, and no response follows.
C6_ReleaseAfterResponse ==
  \A r \in Reqs :
    LET l == log[r] IN
    /\ \A d \in 1..Len(l) :
         /\ l[d].ev = "deleteTempFile" =>
              /\ d > 1 /\ l[d - 1].ev = "respond"
              /\ \A k \in (d + 1)..Len(l) : l[k].ev # "respond"
         /\ l[d].ev = "unlink" => d > 1 /\ l[d - 1].ev = "deleteTempFile"
    /\ (Concluded(r) /\ file[r] # NoFile) =>
         /\ Count(l, "deleteTempFile") = 1
         /\ Count(l, "respond") = 1
         /\ Responses(r)[1].status \in {400, 500, 201}

C6_Witness ==
  \E r \in Reqs :
    /\ Concluded(r)
    /\ file[r] # NoFile
    /\ Responses(r)[1].status = 201
    /\ Count(log[r], "unlink") = 1

\* C7: a request issues at most one INSERT, only once callGeminiApi has
\* returned a non-empty text, with the original filename, the prompt and
\* that text; it has inserted one row exactly when it concluded without an
\* error having returned a text, and none otherwise; the row is in reviews
\* under its own id with those values until a DELETE request removes it, and
\* reviews holds one row per such request whose row was not deleted.
C7_OneRowPerSuccess ==
  /\ \A r \in Reqs :
       LET l == log[r]
           q == Events(l, "insert")
           ins == Events(l, "inserted")
       IN /\ Len(q) <= 1 /\ Len(ins) <= Len(q)
          /\ \A k \in 1..Len(l) : l[k].ev = "insert" =>
               /\ k > 1 /\ l[k - 1].ev = "fetch"
               /\ report[r] \notin {Undefined, ""}
               /\ l[k].report = report[r]
               /\ l[k].filename = Sent(r).file.originalname
               /\ l[k].review_prompt = Sent(r).prompt
          /\ (Len(q) = 1 /\ pc[r] = "inserting") => ins = <<>>
          /\ Len(ins) = 1 <=>
               (Concluded(r) /\ report[r] \notin {Undefined, ""} /\ caught[r] = NoErr)
          /\ (Responses(r) # <<>> /\ Responses(r)[1].status = 201) <=> Len(ins) = 1
          /\ Len(ins) = 1 =>
               /\ Cardinality({row \in reviews : row.id = ins[1].id}) =
                    (IF Deleted(ins[1].id) THEN 0 ELSE 1)
               /\ \A row \in reviews : row.id = ins[1].id =>
                    /\ row.report = report[r]
                    /\ row.filename = Sent(r).file.originalname
                    /\ row.review_prompt = Sent(r).prompt
          /\ \A r2 \in Reqs \ {r} :
               (Len(ins) = 1 /\ Count(log[r2], "inserted") = 1)
                 => ins[1].id # Events(log[r2], "inserted")[1].id
  /\ Cardinality(reviews) =
       Cardinality({r \in Reqs : /\ Count(log[r], "inserted") = 1
                                 /\ ~Deleted(Events(log[r], "inserted")[1].id)})

C7_Witness ==
  /\ Cardinality(reviews) = 2
  /\ \E r \in Reqs :
       /\ pc[r] = "done"
       /\ report[r] = "T1"
       /\ Count(log[r], "fetch") = 3
       /\ \E row \in reviews : row.report = "T1" /\ row.filename = <<"B", ".", "J", "S">>
  /\ \E r \in Reqs : pc[r] = "done" /\ report[r] = "T2" /\ Count(log[r], "fetch") = 1

\* C8: a request whose upload fails validation is answered 400 and neither a
\* fetch nor an INSERT (nor a wait) is ever issued for it; and no request
\* answered 400 has issued any.
C8_ValidationShortCircuit ==
  \A r \in Reqs :
    LET l == log[r] IN
    /\ (Count(l, "upload") = 1 /\ Invalid(Sent(r))) =>
         /\ Count(l, "fetch") = 0
         /\ Count(l, "wait") = 0
         /\ Count(l, "insert") = 0
         /\ Count(l, "inserted") = 0
         /\ pc[r] # "handler" =>
              /\ Concluded(r)
              /\ Len(Responses(r)) = 1
              /\ Responses(r)[1].status = 400
    /\ \A k \in 1..Len(l) : (l[k].ev = "respond" /\ l[k].status = 400) =>
         /\ Count(l, "fetch") = 0
         /\ Count(l, "insert") = 0
         /\ Invalid(Sent(r))

C8_Witness ==
  \E r \in Reqs :
    /\ Count(log[r], "upload") = 1
    /\ Sent(r).prompt = ""
    /\ file[r] # NoFile
    /\ pc[r] = "done"
    /\ Responses(r)[1].status = 400
    /\ Count(log[r], "unlink") = 1

\* C9: every error that reaches the handler's catch block (missing key, an
\* error of callGeminiApi, a failed read, a failed INSERT) is answered with
\* one response, status 500, whose body is the fixed message and nothing
\* else; a call that ended without a text, and a valid request without a
\* key, are answered so.
C9_Generic500 ==
  \A r \in Reqs :
    LET generic == [ev |-> "respond", status |-> 500,
                    body |-> [error |-> "An internal server error occurred during the analysis."]]
    IN /\ caught[r] # NoErr => Responses(r) = <<generic>>
       /\ \A k \in 1..Len(Responses(r)) :
            Responses(r)[k].status = 500 => Responses(r)[k] = generic
       /\ (CallOver(r) /\ hist[r] # <<>> /\ ~Success(hist[r][Len(hist[r])])) =>
            Responses(r) = <<generic>>
       /\ (Concluded(r) /\ ~keySet /\ ~Invalid(Sent(r))) => Responses(r) = <<generic>>

C9_Witness ==
  \E r \in Reqs :
    /\ caught[r].status = 503
    /\ Len(Responses(r)) = 1
    /\ Responses(r)[1].status = 500
    /\ Responses(r)[1].body.error = MsgGeneric

\* C10: without a configured key no fetch is issued and no wait performed for
\* any request, and every request that reaches callGeminiApi (valid upload,
\* file read) fails with the missing-key error, for every file name and prompt.
C10_MissingCredential ==
  ~keySet =>
    \A r \in Reqs :
      /\ Count(log[r], "fetch") = 0
      /\ Count(log[r], "wait") = 0
      /\ hist[r] = <<>>
      /\ pc[r] \notin {"fetching", "waiting", "inserting"}
      /\ (Concluded(r) /\ ~Invalid(Sent(r)) /\ caught[r] # ErrRead) =>
           caught[r] = ErrKeyNotSet

C10_Witness ==
  \E r \in Reqs :
    /\ ~keySet
    /\ pc[r] = "done"
    /\ caught[r] = ErrKeyNotSet
    /\ Count(log[r], "fetch") = 0

\* C11: a request whose generation returned a text and whose INSERT was
\* issued but did not complete is answered with one response, status 500,
\* never 201; reviews holds no row for it; and its temp file is released
\* (deleteTempFile once, fs.unlink when the file exists).
C11_PersistenceFailure ==
  \A r \in Reqs :
    LET l == log[r]
        dels == Events(l, "deleteTempFile")
    IN (Concluded(r) /\ Count(l, "insert") = 1 /\ caught[r] = ErrDb) =>
         /\ report[r] \notin {Undefined, ""}
         /\ Len(Responses(r)) = 1
         /\ Responses(r)[1].status = 500
         /\ \A k \in 1..Len(l) : l[k].ev = "respond" => l[k].status # 201
         /\ Count(l, "inserted") = 0
         /\ \A row \in reviews :
              ~(row.filename = Sent(r).file.originalname /\ row.report = report[r])
         /\ Len(dels) = 1
         /\ dels[1].path = file[r].path
         /\ Count(l, "unlink") = (IF dels[1].exists THEN 1 ELSE 0)
         /\ l[Len(l)].ev \in {"deleteTempFile", "unlink", "unlinked"}

C11_Witness ==
  \E r \in Reqs :
    /\ pc[r] = "done"
    /\ report[r] = "T1"
    /\ caught[r] = ErrDb
    /\ Count(log[r], "insert") = 1
    /\ Responses(r)[1].status = 500
    /\ Count(log[r], "unlinked") = 1
    /\ reviews = {}

\* C15: whenever the endpoint answers attempt k (1-based) with a success
\* status whose body holds no non-empty text, the call fails at once with the
\* empty-response error: that answer is the last one, k fetches were issued
\* in all and only the k-1 waits before it were performed.
C15_EmptySuccessFailsAtOnce ==
  \A r \in Reqs : \A k \in 1..Len(hist[r]) :
    ( /\ hist[r][k].net
      /\ hist[r][k].status >= 200 /\ hist[r][k].status <= 299
      /\ hist[r][k].text \in {Undefined, ""} )
    => /\ Len(hist[r]) = k
       /\ Count(log[r], "fetch") = k
       /\ Count(log[r], "wait") = k - 1
       /\ caught[r] = ErrEmpty

\* C16: when the fetch of attempt k (1-based) is rejected and k < 5, the call
\* waits 2^(k-1) * 1000 ms directly after that fetch and then issues the next
\* fetch; when k = 5 the call raises the fetch error with no fifth wait; and
\* whenever the last answer is a success with text T the call returns T.
C16_NetworkFaultsRetried ==
  \A r \in Reqs :
    /\ \A k \in 1..Len(hist[r]) : ~hist[r][k].net =>
         IF k < MAX_RETRIES
           THEN /\ Count(log[r], "wait") >= k
                /\ Waits(r)[k] = BackoffTable[k]
                /\ \E p \in 2..Len(log[r]) :
                     /\ log[r][p].ev = "wait"
                     /\ log[r][p - 1] = [ev |-> "fetch", i |-> k - 1]
                /\ \/ pc[r] = "waiting" /\ Count(log[r], "wait") = k
                   \/ Count(log[r], "fetch") >= k + 1
                /\ caught[r] = NoErr \/ Len(hist[r]) > k
           ELSE /\ Count(log[r], "wait") = MAX_RETRIES - 1
                /\ caught[r] = ErrFetch
                /\ CallOver(r)
    /\ (hist[r] # <<>> /\ Success(hist[r][Len(hist[r])])) =>
         report[r] = hist[r][Len(hist[r])].text

C16_Witness ==
  \E r \in Reqs :
    /\ Len(hist[r]) = 3
    /\ ~hist[r][1].net
    /\ ~hist[r][2].net
    /\ hist[r][3].text = "T1"
    /\ report[r] = "T1"
    /\ Waits(r) = <<1000, 2000>>
    /\ pc[r] = "done"

\* C19: an Analyze request gets no response while it is in flight and exactly
\* one, with status 400, 201 or 500, once it has concluded; a request the
\* upload middleware answered never reaches the handler; and nothing but the
\* release of the temp file follows a response.
C19_SingleResponse ==
  \A r \in Reqs :
    LET l == log[r] IN
    /\ Count(l, "respond") <= 1
    /\ pc[r] \in {"idle", "handler", "fetching", "waiting", "inserting"} =>
         Count(l, "respond") = 0
    /\ Concluded(r) =>
         /\ Count(l, "respond") = 1
         /\ Responses(r)[1].status \in {400, 201, 500}
    /\ \A k \in 1..Len(l) : l[k].ev = "respond" =>
         /\ \A j \in (k + 1)..Len(l) : l[j].ev \in {"deleteTempFile", "unlink", "unlinked"}
         /\ (l[k].status = 400 /\ l[k].body.error \in {MsgInvalidType, MsgTooLarge}) =>
              /\ Len(l) = 2
              /\ l[1].ev = "upload"
              /\ file[r] = NoFile
              /\ pc[r] = "done"

C19_Witness ==
  \E r \in Reqs :
    /\ Count(log[r], "upload") = 1
    /\ Sent(r).prompt = Undefined
    /\ file[r] # NoFile
    /\ pc[r] = "done"
    /\ Len(Responses(r)) = 1
    /\ Responses(r)[1].body = [error |-> MsgNoPrompt]
    /\ Count(log[r], "deleteTempFile") = 1

\* C20: the loop variable never passes 4 and the error thrown after the loop
\* is never raised: a call that issued a fetch and is over either returned a
\* non-empty text, or threw from the catch block of attempt 4 after 5 fetches.
C20_LoopExits ==
  \A r \in Reqs :
    /\ i[r] <= MAX_RETRIES - 1
    /\ caught[r] # ErrAfterRetries
    /\ (CallOver(r) /\ Count(log[r], "fetch") >= 1) =>
         \/ /\ report[r] \notin {Undefined, ""}
            /\ caught[r] \in {NoErr, ErrDb}
         \/ /\ report[r] = Undefined
            /\ caught[r] \in ApiErrors \ {ErrAfterRetries}
            /\ i[r] = MAX_RETRIES - 1
            /\ Count(log[r], "fetch") = MAX_RETRIES
            /\ Len(hist[r]) = MAX_RETRIES
            /\ ~Success(hist[r][MAX_RETRIES])

C20_Witness ==
  \E r \in Reqs :
    /\ pc[r] = "done"
    /\ i[r] = MAX_RETRIES - 1
    /\ caught[r] = ErrEmpty
    /\ Count(log[r], "fetch") = MAX_RETRIES

\* C17: when the 5th attempt is answered with a status >= 500, the call is
\* over with the error that carries that status and the message the endpoint
\* gave (error.message of the body, else the status text); exactly the 4 waits
\* before the 5th fetch were performed and none follows it.
C17_LastAttemptRaises ==
  \A r \in Reqs :
    (Len(hist[r]) = MAX_RETRIES /\ ServerError(hist[r][MAX_RETRIES])) =>
      LET o == hist[r][MAX_RETRIES]
          l == log[r]
      IN /\ CallOver(r)
         /\ pc[r] # "waiting"
         /\ caught[r].msg = "Gemini API Error"
         /\ caught[r].status = o.status
         /\ caught[r].detail = (IF o.errmsg \in {Undefined, ""} THEN o.statusText ELSE o.errmsg)
         /\ report[r] = Undefined
         /\ Count(l, "wait") = MAX_RETRIES - 1
         /\ Count(l, "fetch") = MAX_RETRIES
         /\ \A p, q \in 1..Len(l) :
              (l[p].ev = "fetch" /\ l[p].i = MAX_RETRIES - 1 /\ l[q].ev = "wait") => q < p

C17_Witness ==
  \E r \in Reqs :
    /\ Len(hist[r]) = MAX_RETRIES
    /\ ~hist[r][1].net
    /\ hist[r][MAX_RETRIES].status = 503
    /\ caught[r].detail = "The model is overloaded."
    /\ Waits(r) = BackoffTable
    /\ pc[r] = "done"

\* What the upload middleware did with the body of request r.
Rejected(r, msg) ==
  /\ Len(log[r]) = 2
  /\ log[r][2] = [ev |-> "respond", status |-> 400, body |-> [error |-> msg]]
  /\ file[r] = NoFile
  /\ pc[r] = "done"
Accepted(r) ==
  /\ file[r] # NoFile
  /\ file[r].originalname = Sent(r).file.originalname
  /\ \A k \in 1..Len(log[r]) : log[r][k].ev = "respond" =>
       log[r][k].body \notin {[error |-> MsgInvalidType], [error |-> MsgTooLarge]}

\* C12 as stated: every upload of a file larger than 5 MiB is answered with
\* the file-too-large message, whatever its type.
C12_OversizeAlwaysTooLarge ==
  \A r \in Reqs :
    (Count(log[r], "upload") = 1 /\ Sent(r).file # NoFile
       /\ Sent(r).file.size > 5 * 1024 * 1024)
    => Rejected(r, MsgTooLarge)

\* C12 amended: an upload of a file larger than 5 MiB is rejected with 400 and
\* never reaches the handler; the message is the file-too-large one when the
\* MIME type or the lower-cased extension is in its allow-list, and the
\* invalid-type one when both are outside.
C12_OversizeRejected ==
  \A r \in Reqs :
    (Count(log[r], "upload") = 1 /\ Sent(r).file # NoFile
       /\ Sent(r).file.size > 5 * 1024 * 1024)
    => LET f == Sent(r).file
           typeOk == \/ f.mimetype \in allowedMimeTypes
                     \/ toLowerCase(extname(f.originalname)) \in allowedExtensions
       IN /\ typeOk => Rejected(r, MsgTooLarge)
          /\ ~typeOk => Rejected(r, MsgInvalidType)
          /\ r \notin disk
          /\ Count(log[r], "fetch") = 0

C12_Witness ==
  \E r \in Reqs :
    /\ Count(log[r], "upload") = 1
    /\ Sent(r).file.originalname = <<"a", ".", "p", "y">>
    /\ Sent(r).file.size = 5 * 1024 * 1024 + 1
    /\ Rejected(r, MsgTooLarge)

\* C13: an upload of a file of at most 5 MiB passes the gate if and only if
\* its MIME type is in the MIME allow-list or its lower-cased extension is in
\* the extension allow-list; otherwise it is answered 400 with the
\* invalid-type message and never reaches the handler.
C13_TypeDecision ==
  \A r \in Reqs :
    (Count(log[r], "upload") = 1 /\ Sent(r).file # NoFile
       /\ Sent(r).file.size <= 5 * 1024 * 1024)
    => LET f == Sent(r).file
           mimeOk == f.mimetype \in allowedMimeTypes
           extOk == toLowerCase(extname(f.originalname)) \in allowedExtensions
       IN /\ Accepted(r) <=> (mimeOk \/ extOk)
          /\ extOk => Accepted(r)
          /\ mimeOk => Accepted(r)
          /\ (~mimeOk /\ ~extOk) => Rejected(r, MsgInvalidType)
          /\ f.originalname \in {<<"B", ".", "J", "S">>, <<"C", ".", "T", "S">>,
                                 <<"M", "a", "k", "e">>, <<"a", ".", "p", "y">>} => Accepted(r)
          /\ f.originalname \in {<<"x", ".", "e", "x", "e">>, <<".", "j", "s">>} =>
               Rejected(r, MsgInvalidType)

C13_Witness ==
  \E r \in Reqs :
    /\ Count(log[r], "upload") = 1
    /\ Sent(r).file.originalname = <<"C", ".", "T", "S">>
    /\ Sent(r).file.mimetype = "video/mp2t"
    /\ Accepted(r)
    /\ pc[r] = "fetching"

\* A step in which request r gets the reply e of a report request, taken
\* against the rows the store held before the step.
C14_Step ==
  \A r \in Reqs :
    (Len(log'[r]) = Len(log[r]) + 1 /\ log'[r][Len(log'[r])].ev = "reply") =>
      LET e == log'[r][Len(log'[r])]
          rows == {row \in reviews : row.id = e.id}
      IN /\ e.status = 500 => reviews' = reviews
         /\ (e.op = "delete" /\ e.status # 500) =>
              /\ rows = {} => (e.status = 404 /\ reviews' = reviews)
              /\ rows # {} =>
                   /\ e.status = 204
                   /\ reviews' = {row \in reviews : row.id # e.id}
                   /\ Cardinality(reviews') = Cardinality(reviews) - 1
         /\ (e.op = "get" /\ e.status # 500) =>
              /\ reviews' = reviews
              /\ rows = {} <=> e.status = 404
              /\ rows # {} => (e.status = 200 /\ e.body \in rows)
         /\ Deleted(e.id) => e.status \in {404, 500}
         /\ \A id \in Ids : Deleted(id) => \A row \in reviews : row.id # id
         /\ \A row \in reviews' : e.op = "delete" /\ e.status = 204 => row.id # e.id

\* C14: when the store answers the query, a DELETE of an id with no row
\* replies 404 and leaves the rows as they were; a DELETE of an id with a row
\* replies 204 and removes that row and no other; a GET replies 404 exactly
\* when no row has the id; once a DELETE of an id was answered 204, no row has
\* that id and every later GET or DELETE of it replies 404. (When the query
\* rejects, the reply is 500 and the rows are as they were.)
C14_DeleteGetById == [][C14_Step]_vars

C14_Witness ==
  \E r \in Reqs :
    /\ pc[r] = "client"
    /\ Len(log[r]) = 3
    /\ log[r][1].op = "delete" /\ log[r][1].id = 2 /\ log[r][1].status = 204
    /\ log[r][2].op = "get" /\ log[r][2].id = 2 /\ log[r][2].status = 404
    /\ log[r][3].op = "delete" /\ log[r][3].id = 2 /\ log[r][3].status = 404
    /\ reviews = {OldRow}

\* What belongs to request r alone.
Own(r) == <<pc[r], file[r], prompt[r], i[r], report[r], caught[r], log[r], hist[r]>>
\* Any step of the Analyze pipeline of request q.
Step(q) ==
  \/ Upload(q)
  \/ Analyze(q)
  \/ FetchReturns(q)
  \/ TimerFires(q)
  \/ InsertReturns(q)
  \/ UnlinkReturns(q)
InFlight(q) == pc[q] \in {"idle", "handler", "fetching", "waiting", "inserting", "unlinking"}

C18_State ==
  /\ \A r, q \in Reqs :
       r # q =>
         \* own temp file
         /\ (file[r] # NoFile /\ file[q] # NoFile) => file[r].path # file[q].path
         \* a waiting request does not hold up another one
         /\ (pc[r] = "waiting" /\ InFlight(q)) => ENABLED Step(q)
  /\ \A r \in Reqs :
       LET l == log[r] IN
       \* own attempt counter: fetches are numbered 0, 1, 2, ... and each wait
       \* is the one of the attempt before it
       /\ \A k \in 1..Count(l, "fetch") : Events(l, "fetch")[k].i = k - 1
       /\ \A k \in 1..Count(l, "wait") : Waits(r)[k] = BackoffTable[k]
       /\ Count(l, "fetch") >= 1 /\ pc[r] \in {"fetching", "waiting"} =>
            i[r] = Count(l, "fetch") - 1
       \* only its own temp file is released
       /\ \A k \in 1..Len(l) :
            l[k].ev \in {"deleteTempFile", "unlink"} => l[k].path = file[r].path
  \* one row per request whose generation and INSERT both succeeded
  /\ nextId - 1 = Cardinality({r \in Reqs : Count(log[r], "inserted") = 1})
  /\ \A r \in Reqs :
       Count(log[r], "inserted") = 1 <=>
         (Concluded(r) /\ report[r] \notin {Undefined, ""} /\ caught[r] = NoErr)

C18_Step ==
  /\ \A r, q \in Reqs : (r # q /\ Own(r)' # Own(r)) => Own(q)' = Own(q)
  /\ \A p \in disk \ disk' :
       \A r \in Reqs : Own(r)' # Own(r) => (file[r] # NoFile /\ file[r].path = p)
  /\ \A r \in Reqs :
       (Count(log[r], "inserted")' = Count(log[r], "inserted") + 1) =>
         /\ nextId' = nextId + 1
         /\ Cardinality(reviews') = Cardinality(reviews) + 1

\* C18: concurrent Analyze requests are independent: a step changes the
\* counter, file, report, error and log of one request only; each request
\* numbers its own attempts and waits its own delays; their temp files are
\* distinct and a request releases only its own; while one request waits for
\* a retry every other request in flight can take its next step; and every
\* request whose generation and INSERT succeeded has added one row of its
\* own, identical requests included.
C18_Independent == []C18_State /\ [][C18_Step]_vars

C18_Witness ==
  \E r, q \in Reqs :
    /\ r # q
    /\ pc[r] = "done" /\ pc[q] = "done"
    /\ Count(log[q], "upload") = 1 /\ Count(log[r], "upload") = 1
    /\ Sent(r) = Sent(q)
    /\ report[r] = "T1" /\ report[q] = "T1"
    /\ Count(log[r], "wait") = 2 /\ Count(log[q], "wait") = 0
    /\ Count(log[r], "unlinked") = 1 /\ Count(log[q], "unlinked") = 1
    /\ Cardinality(reviews) = 2
    /\ nextId = 3

====
